---- MODULE Spec2Model ----
(***************************************************************************)
(* simulate_data_loss.py: sample rows of a table, copy them to a backup    *)
(* table, delete them from the source and restore them, over one psycopg2  *)
(* connection.                                                             *)
(*                                                                         *)
(* The database is modelled as a committed state and the session's working *)
(* view of it: a statement changes the working view, connection.commit()   *)
(* makes the working view the committed state, connection.rollback()       *)
(* resets the working view to the committed state.  A statement can fail   *)
(* with psycopg2.Error for a reason the statement itself shows (missing    *)
(* table, unique violation, transaction already aborted) or for a reason   *)
(* of the environment (lost connection, privileges, timeout): the latter   *)
(* is a nondeterministic choice at every cursor.execute.                   *)
(*                                                                         *)
(* Two specifications share the operations' actions.  Spec is the entry    *)
(* routine (__main__).  SpecOps is a caller that calls the operations in   *)
(* any order with a key set and a requested backup name, on small tables   *)
(* that may hold duplicate keys.                                           *)
(***************************************************************************)
EXTENDS Integers, Sequences, FiniteSets, TLC

\* __main__ : sample_size = 10
sample_size == 10

\* Spec: the source table holds 0..MaxRows rows (keys 1..n).
MaxRows == 11
\* SpecOps: key values 1..MaxKey.
MaxKey == 2
\* SpecOps: number of operation calls the caller makes.
MaxCalls == 3

VARIABLES
  pc,                   \* control location
  caller,               \* "main" (entry routine) or "ops" (any caller)
  conn,                 \* "none" (None), "open", "closed"
  txn,                  \* "idle", "open", "failed" (aborted until rollback)
  committed,            \* table name -> table, as committed
  working,              \* table name -> table, as the session sees it
  primary_key_values,   \* result of get_primary_key_values (None or values)
  sampled_primary_keys, \* the key list passed to backup/remove/restore
  table_names,          \* backup_records: result of get_table_names
  backup_table_name,    \* backup_records / restore_records: the local name
  version,              \* backup_records: version counter
  i,                    \* loop position in the key list (1-based)
  printed,              \* what the running operation printed last
  outcome,              \* how the last operation ended: returned / raised
  calls,                \* operation calls made by the caller
  op,                   \* the operation running, or the last one that ran
  orig,                 \* history: source rows when the run / round trip began
  created,              \* history: table(s) created by the last backup_records
  expected,             \* history: the rows that backup_records had to copy
  committed0,           \* history: committed state when the operation was called
  dberr,                \* history: a statement of this call raised psycopg2.Error
  commits,              \* history: connection.commit() calls of this call
  discarded,            \* history: the rollback of this call undid changes
  trip,                 \* history: progress of backup -> remove -> restore
  source0,              \* history: the source rows before the first operation
  previous_fetch,       \* history: what the call of get_primary_key_values
                        \* directly before this one returned (else None)
  ran                   \* history: steps of the entry routine entered so far

vars ==
  << pc, caller, conn, txn, committed, working, primary_key_values,
     sampled_primary_keys, table_names, backup_table_name, version, i, printed,
     outcome, calls, op, orig, created, expected, committed0, dberr, commits,
     discarded, trip, source0, previous_fetch, ran >>

\* __main__ : table_name = "customers".  A table name is a base string and
\* the "_v{n}" suffixes appended to it, in order.
table_name == [base |-> "customers", sfx |-> <<>>]

\* __main__ : backup_table_name = "customers_backup" (the requested name).
requested_backup_table_name == [base |-> "customers_backup", sfx |-> <<>>]

\* f"{backup_table_name}_v{version}"
WithSuffix(name, v) == [name EXCEPT !.sfx = Append(@, v)]

\* Backup-named tables that may exist before the run: X, X_v1, X_v2.
PreNames ==
  { requested_backup_table_name,
    WithSuffix(requested_backup_table_name, 1),
    WithSuffix(requested_backup_table_name, 2) }

\* Rows are (primary_key_field, other columns): k is the key column, d stands
\* for the remaining columns.  A table's rows are a multiset: row -> copies.
\* The key values of a run: 1..MaxRows for the entry routine, 1..MaxKey for
\* the calls of SpecOps.
KeyValues == IF caller = "main" THEN 1..MaxRows ELSE 1..MaxKey
Payloads == {0, 1}
Rows == [k : KeyValues, d : Payloads]
NoRows == [r \in Rows |-> 0]
RowsOf(S, D) == [r \in Rows |-> IF r \in D THEN 2 ELSE IF r \in S THEN 1 ELSE 0]

RECURSIVE SumOver(_, _)
SumOver(S, f) ==
  IF S = {} THEN 0
  ELSE LET x == CHOOSE y \in S : TRUE IN f[x] + SumOver(S \ {x}, f)

\* number of rows of a table
Size(rows) == SumOver({r \in Rows : rows[r] > 0}, rows)

\* SELECT * FROM t WHERE key = v
Matching(rows, v) == [r \in Rows |-> IF r.k = v THEN rows[r] ELSE 0]

\* DELETE FROM t WHERE key <= v
DeleteUpTo(rows, v) == [r \in Rows |-> IF r.k <= v THEN 0 ELSE rows[r]]

\* DELETE FROM t WHERE key = v
DeleteWhere(rows, v) == [r \in Rows |-> IF r.k = v THEN 0 ELSE rows[r]]

\* INSERT INTO t <rows>
Plus(a, b) == [r \in Rows |-> a[r] + b[r]]

\* SELECT DISTINCT key FROM t: every value once, however many rows hold it
KeyColumnDistinct(rows) ==
  [v \in KeyValues |-> IF Size(Matching(rows, v)) > 0 THEN 1 ELSE 0]

\* SELECT key FROM t; fetchall(): one value per row.  The result is kept as
\* the multiset of returned values (value -> occurrences): SQL leaves the
\* order open and the entry routine sorts what it samples.
KeyColumn(rows) == [v \in KeyValues |-> Size(Matching(rows, v))]

RECURSIVE SortedSeq(_)
SortedSeq(S) ==
  IF S = {} THEN <<>>
  ELSE LET m == CHOOSE x \in S : \A y \in S : x <= y
       IN <<m>> \o SortedSeq(S \ {m})

\* CREATE TABLE new (LIKE source): columns only, no constraints or indexes.
EmptyLike(t) == [rows |-> NoRows, uniq |-> FALSE]

AddTable(db, name, t) ==
  [nm \in DOMAIN db \cup {name} |-> IF nm = name THEN t ELSE db[nm]]

\* INSERT INTO dest SELECT * FROM src WHERE key = v raises psycopg2.Error:
\* a table is missing, or dest enforces uniqueness of the key and would hold
\* the key twice.
InsertSelectFails(db, dest, src, v) ==
  \/ dest \notin DOMAIN db
  \/ src \notin DOMAIN db
  \/ /\ db[dest].uniq
     /\ Size(Matching(db[src].rows, v)) > 0
     /\ Size(Matching(db[dest].rows, v)) + Size(Matching(db[src].rows, v)) > 1

\* the rows are moved: inserted into dest and deleted from src
InsertSelectMove(db, dest, src, v) ==
  [db EXCEPT ![dest].rows = Plus(@, Matching(db[src].rows, v)),
             ![src].rows = DeleteWhere(@, v)]

InsertSelect(db, dest, src, v) ==
  [db EXCEPT ![dest].rows = Plus(@, Matching(db[src].rows, v))]

\* an "if" in place of the "while": the name is checked once
DisambiguateOnce(name, names, v) ==
  IF name \in names
  THEN [name |-> WithSuffix(name, v), version |-> v + 1]
  ELSE [name |-> name, version |-> v]

\* the candidate is not renamed on every other pass, so it is checked again
RECURSIVE DisambiguateSlowly(_, _, _)
DisambiguateSlowly(name, names, v) ==
  IF name \in names
  THEN DisambiguateSlowly(IF v % 2 = 0 THEN WithSuffix(name, v) ELSE name,
                          names, v + 1)
  ELSE [name |-> name, version |-> v]

\* the while loop of backup_records: the name it ends with and the version
\* counter it ends with
RECURSIVE Disambiguate(_, _, _)
Disambiguate(name, names, v) ==
  IF name \in names
  THEN Disambiguate(WithSuffix(name, v), names, v + 1)
  ELSE [name |-> name, version |-> v]

None == [none |-> TRUE, val |-> {}]
Some(x) == [none |-> FALSE, val |-> x]

KeyAt == sampled_primary_keys[i]
KeySet == {sampled_primary_keys[j] : j \in 1..Len(sampled_primary_keys)}

\* the rows of a table whose key is in K
Selected(rows, K) == [r \in Rows |-> IF r.k \in K THEN rows[r] ELSE 0]

\* the tables of the database before the run: the source table and any of
\* the backup-named tables, left by earlier runs (created by LIKE, so
\* without constraints); a left-over "customers_backup" is empty or holds
\* older versions of the rows
InitialDb(srcRows, uniq, pre, staleRows) ==
  [nm \in {table_name} \cup pre |->
     IF nm = table_name THEN [rows |-> srcRows, uniq |-> uniq]
     ELSE IF nm = requested_backup_table_name
          THEN [rows |-> staleRows, uniq |-> FALSE]
          ELSE EmptyLike(table_name)]

InitLocals ==
  /\ txn = "idle"
  /\ working = committed
  /\ primary_key_values = None
  /\ table_names = None
  /\ backup_table_name = requested_backup_table_name
  /\ version = 1
  /\ i = 1
  /\ printed = "none"
  /\ outcome = "none"
  /\ calls = 0
  /\ op = "none"
  /\ orig = committed[table_name].rows
  /\ created = {}
  /\ expected = NoRows
  /\ committed0 = committed
  /\ dberr = FALSE
  /\ commits = 0
  /\ discarded = FALSE
  /\ trip = 0
  /\ source0 = committed[table_name].rows
  /\ previous_fetch = None
  /\ ran = <<>>

\* the entry routine, before line 217: a source table of n rows with keys
\* 1..n, with or without an enforced primary key
Init ==
  /\ pc = "connect"
  /\ caller = "main"
  /\ conn = "none"
  /\ sampled_primary_keys = <<>>
  /\ \E n \in 0..MaxRows, uniq \in BOOLEAN, pre \in SUBSET PreNames, stale \in BOOLEAN :
       committed =
         InitialDb(RowsOf({[k |-> v, d |-> 0] : v \in 1..n}, {}), uniq, pre,
                   IF stale THEN RowsOf({[k |-> v, d |-> 1] : v \in 1..n}, {})
                   ELSE NoRows)
  /\ InitLocals

\* the backup tables that n earlier runs asked for by the same name would
\* have left, were they named X, X_v1, X_v2
PreChains ==
  { {nm \in PreNames : Len(nm.sfx) = 0 \/ nm.sfx[1] < n} : n \in 1..3 } \cup {{}}

\* any caller of the operations: a small source table, possibly with a key
\* held by two rows when uniqueness is not enforced, and a key set
InitOps ==
  /\ pc = "idle"
  /\ caller = "ops"
  /\ conn = "open"
  /\ \E K \in SUBSET (1..MaxKey) : sampled_primary_keys = SortedSeq(K)
  /\ \E S \in SUBSET (1..MaxKey), uniq \in BOOLEAN, pre \in PreChains,
        stale \in BOOLEAN :
       \E D \in (IF uniq THEN {{}} ELSE SUBSET S) :
         committed =
           InitialDb(RowsOf({[k |-> v, d |-> 0] : v \in S},
                            {[k |-> v, d |-> 0] : v \in D}),
                     uniq, pre,
                     IF stale THEN RowsOf({[k |-> v, d |-> 1] : v \in 1..MaxKey}, {})
                     ELSE NoRows)
  /\ InitLocals

\* where control goes when an operation returns / lets an exception escape
ReturnTo(next) == IF caller = "main" THEN next ELSE "idle"
RaiseTo == IF caller = "main" THEN "crashed" ELSE "idle"

\* an operation is entered
Enter(name) ==
  /\ op' = name
  /\ committed0' = committed
  /\ dberr' = FALSE
  /\ commits' = 0
  /\ discarded' = FALSE
  /\ printed' = "none"
  /\ outcome' = "running"
  /\ calls' = calls + 1


(***************************************************************************)
(* get_primary_key_values                                                  *)
(***************************************************************************)
\* a query that takes the rows it reads out of the table
GetPrimaryKeyValuesConsuming(next) ==
  /\ op' = "get_primary_key_values"
  /\ committed0' = committed
  /\ commits' = 0
  /\ discarded' = FALSE
  /\ calls' = calls + 1
  /\ \/ /\ txn # "failed"
        /\ table_name \in DOMAIN working
        /\ primary_key_values' = Some(KeyColumn(working[table_name].rows))
        /\ working' = [working EXCEPT ![table_name].rows = NoRows]
        /\ txn' = "open"
        /\ dberr' = FALSE
        /\ printed' = "none"
     \/ /\ primary_key_values' = None
        /\ UNCHANGED working
        /\ txn' = "failed"
        /\ dberr' = TRUE
        /\ printed' = "Error retrieving primary key values"
  /\ outcome' = "returned"
  /\ pc' = ReturnTo(next)
  /\ i' = 1
  /\ table_names' = None
  /\ backup_table_name' = requested_backup_table_name
  /\ version' = 1
  /\ previous_fetch' = IF op = "get_primary_key_values" THEN primary_key_values ELSE None
  /\ UNCHANGED << caller, source0, conn, committed, sampled_primary_keys,
                  orig, created, expected >>

GetPrimaryKeyValues(next) ==
  /\ op' = "get_primary_key_values"
  /\ committed0' = committed
  /\ commits' = 0
  /\ discarded' = FALSE
  /\ calls' = calls + 1
  /\ \/ /\ txn # "failed"
        /\ table_name \in DOMAIN working
        /\ primary_key_values' = Some(KeyColumn(working[table_name].rows))
        /\ txn' = "open"
        /\ dberr' = FALSE
        /\ printed' = "none"
     \/ /\ primary_key_values' = None
        /\ txn' = "failed"
        /\ dberr' = TRUE
        /\ printed' = "Error retrieving primary key values"
  /\ outcome' = "returned"
  /\ pc' = ReturnTo(next)
  /\ i' = 1
  /\ table_names' = None
  /\ backup_table_name' = requested_backup_table_name
  /\ version' = 1
  /\ previous_fetch' = IF op = "get_primary_key_values" THEN primary_key_values ELSE None
  /\ UNCHANGED << caller, source0, conn, committed, working, sampled_primary_keys,
                  orig, created, expected >>

\* the three operations are entered with the caller's arguments; the locals
\* of the call that returned before are gone
CallBackupRecords ==
  /\ Enter("backup_records")
  /\ pc' = "b_list"
  /\ backup_table_name' = requested_backup_table_name
  /\ table_names' = None
  /\ version' = 1
  /\ i' = 1
  /\ created' = {}
  /\ expected' = IF table_name \in DOMAIN working
                 THEN Selected(working[table_name].rows, KeySet)
                 ELSE NoRows
  /\ previous_fetch' = None
  /\ UNCHANGED << caller, source0, conn, txn, committed, working, primary_key_values,
                  sampled_primary_keys >>

CallRemoveRecords ==
  /\ Enter("remove_records")
  /\ pc' = "r_delete"
  /\ i' = 1
  /\ table_names' = None
  /\ backup_table_name' = requested_backup_table_name
  /\ version' = 1
  /\ previous_fetch' = None
  /\ UNCHANGED << caller, source0, conn, txn, committed, working, primary_key_values,
                  sampled_primary_keys, orig, created, expected >>

CallRestoreRecords ==
  /\ Enter("restore_records")
  /\ pc' = "s_insert"
  /\ backup_table_name' = requested_backup_table_name
  /\ i' = 1
  /\ table_names' = None
  /\ version' = 1
  /\ previous_fetch' = None
  /\ UNCHANGED << caller, source0, conn, txn, committed, working, primary_key_values,
                  sampled_primary_keys, orig, created, expected >>

(***************************************************************************)
(* get_table_names, called by backup_records at line 113                   *)
(***************************************************************************)
GetTableNames ==
  /\ pc = "b_list"
  /\ \/ /\ txn # "failed"
        /\ table_names' = Some(DOMAIN working)
        /\ txn' = "open"
        /\ UNCHANGED << dberr, printed >>
     \/ /\ table_names' = None
        /\ txn' = "failed"
        /\ dberr' = TRUE
        /\ printed' = "Error retrieving table names"
  /\ pc' = "b_rename"
  /\ UNCHANGED << caller, source0, previous_fetch, conn, committed, working,
                  primary_key_values,
                  sampled_primary_keys, backup_table_name, version, i, outcome,
                  calls, op, orig, created, expected, committed0, commits,
                  discarded, trip, ran >>

(***************************************************************************)
(* backup_records                                                          *)
(***************************************************************************)
\* lines 114-121: "backup_table_name in table_names" raises TypeError when
\* get_table_names returned None; TypeError is no psycopg2.Error and leaves
\* backup_records
BackupRename ==
  /\ pc = "b_rename"
  /\ \/ /\ table_names.none
        /\ pc' = RaiseTo
        /\ outcome' = "raised"
        /\ UNCHANGED << backup_table_name, version, printed >>
     \/ /\ ~table_names.none
        /\ LET d == Disambiguate(backup_table_name, table_names.val, 1)
           IN /\ backup_table_name' = d.name
              /\ version' = d.version
              /\ printed' = IF d.version > 1
                            THEN "Backup table name already exists"
                            ELSE printed
        /\ pc' = "b_create"
        /\ UNCHANGED outcome
  /\ UNCHANGED << caller, source0, previous_fetch, conn, txn, committed,
                  working, primary_key_values,
                  sampled_primary_keys, table_names, i, calls, op, orig, created,
                  expected, committed0, dberr, commits, discarded, trip, ran >>

\* a statement raised psycopg2.Error: control goes to the except clause
StatementFails(handler) ==
  /\ txn' = "failed"
  /\ dberr' = TRUE
  /\ pc' = handler
  /\ UNCHANGED << working, i, created >>

\* lines 124-127
BackupCreate ==
  /\ pc = "b_create"
  /\ \/ /\ txn # "failed"
        /\ backup_table_name \notin DOMAIN working
        /\ table_name \in DOMAIN working
        /\ working' = AddTable(working, backup_table_name, EmptyLike(working[table_name]))
        /\ created' = {backup_table_name}
        /\ txn' = "open"
        /\ pc' = "b_insert"
        /\ UNCHANGED << dberr, i >>
     \/ StatementFails("b_except")
  /\ UNCHANGED << caller, source0, previous_fetch, conn, committed, primary_key_values,
                  sampled_primary_keys, table_names, backup_table_name, version,
                  printed, outcome, calls, op, orig, expected, committed0, commits,
                  discarded, trip, ran >>

\* lines 130-135, one iteration
BackupInsert ==
  /\ pc = "b_insert"
  /\ i <= Len(sampled_primary_keys)
  /\ \/ /\ txn # "failed"
        /\ ~InsertSelectFails(working, backup_table_name, table_name, KeyAt)
        /\ working' = InsertSelect(working, backup_table_name, table_name, KeyAt)
        /\ i' = i + 1
        /\ txn' = "open"
        /\ UNCHANGED << dberr, pc, created >>
     \/ StatementFails("b_except")
  /\ UNCHANGED << caller, source0, previous_fetch, conn, committed, primary_key_values,
                  sampled_primary_keys, table_names, backup_table_name, version,
                  printed, outcome, calls, op, orig, expected, committed0, commits,
                  discarded, trip, ran >>

\* connection.commit(), the success message, return
CommitAndReturn(next, message) ==
  /\ committed' = working
  /\ txn' = "idle"
  /\ commits' = commits + 1
  /\ printed' = message
  /\ outcome' = "returned"
  /\ pc' = ReturnTo(next)
  /\ UNCHANGED << caller, source0, previous_fetch, conn, working, primary_key_values,
                  sampled_primary_keys, table_names, backup_table_name, version,
                  i, calls, op, orig, created, expected, committed0, dberr,
                  discarded, trip, ran >>

\* an except clause that commits what the statements before the failure did
RollbackAndReturnCommits(next, message) ==
  /\ committed' = working
  /\ txn' = "idle"
  /\ discarded' = FALSE
  /\ printed' = message
  /\ outcome' = "returned"
  /\ pc' = ReturnTo(next)
  /\ UNCHANGED << caller, source0, previous_fetch, conn, working, primary_key_values,
                  sampled_primary_keys, table_names, backup_table_name, version,
                  i, calls, op, orig, created, expected, committed0, dberr,
                  commits, trip, ran >>

\* except psycopg2.Error: connection.rollback(), the error message, return
RollbackAndReturn(next, message) ==
  /\ working' = committed
  /\ txn' = "idle"
  /\ discarded' = (working # committed)
  /\ printed' = message
  /\ outcome' = "returned"
  /\ pc' = ReturnTo(next)
  /\ UNCHANGED << caller, source0, previous_fetch, conn, committed, primary_key_values,
                  sampled_primary_keys, table_names, backup_table_name, version,
                  i, calls, op, orig, created, expected, committed0, dberr,
                  commits, trip, ran >>

\* lines 136-138
BackupCommit ==
  /\ pc = "b_insert"
  /\ i > Len(sampled_primary_keys)
  /\ CommitAndReturn("remove", "backed up successfully")

\* lines 139-141
BackupExcept ==
  /\ pc = "b_except"
  /\ RollbackAndReturn("remove", "Error backing up records")

(***************************************************************************)
(* remove_records                                                          *)
(***************************************************************************)
\* lines 164-168, one iteration
RemoveDelete ==
  /\ pc = "r_delete"
  /\ i <= Len(sampled_primary_keys)
  /\ \/ /\ txn # "failed"
        /\ table_name \in DOMAIN working
        /\ working' = [working EXCEPT ![table_name].rows = DeleteWhere(@, KeyAt)]
        /\ i' = i + 1
        /\ txn' = "open"
        /\ UNCHANGED << dberr, pc, created >>
     \/ StatementFails("r_except")
  /\ UNCHANGED << caller, source0, previous_fetch, conn, committed, primary_key_values,
                  sampled_primary_keys, table_names, backup_table_name, version,
                  printed, outcome, calls, op, orig, expected, committed0, commits,
                  discarded, trip, ran >>

\* lines 170-172
RemoveCommit ==
  /\ pc = "r_delete"
  /\ i > Len(sampled_primary_keys)
  /\ CommitAndReturn("restore", "removed successfully")

\* lines 173-175
RemoveExcept ==
  /\ pc = "r_except"
  /\ RollbackAndReturn("restore", "Error backing up and removing records")

(***************************************************************************)
(* restore_records                                                         *)
(***************************************************************************)
\* lines 199-204, one iteration
RestoreInsert ==
  /\ pc = "s_insert"
  /\ i <= Len(sampled_primary_keys)
  /\ \/ /\ txn # "failed"
        /\ ~InsertSelectFails(working, table_name, backup_table_name, KeyAt)
        /\ working' = InsertSelect(working, table_name, backup_table_name, KeyAt)
        /\ i' = i + 1
        /\ txn' = "open"
        /\ UNCHANGED << dberr, pc, created >>
     \/ StatementFails("s_except")
  /\ UNCHANGED << caller, source0, previous_fetch, conn, committed, primary_key_values,
                  sampled_primary_keys, table_names, backup_table_name, version,
                  printed, outcome, calls, op, orig, expected, committed0, commits,
                  discarded, trip, ran >>

\* lines 206-208
RestoreCommit ==
  /\ pc = "s_insert"
  /\ i > Len(sampled_primary_keys)
  /\ CommitAndReturn("close", "restored successfully")

\* lines 209-211
RestoreExcept ==
  /\ pc = "s_except"
  /\ RollbackAndReturn("close", "Error restoring records")

Operations ==
  \/ GetTableNames
  \/ BackupRename
  \/ BackupCreate
  \/ BackupInsert
  \/ BackupCommit
  \/ BackupExcept
  \/ RemoveDelete
  \/ RemoveCommit
  \/ RemoveExcept
  \/ RestoreInsert
  \/ RestoreCommit
  \/ RestoreExcept


(***************************************************************************)
(* __main__, lines 215-236                                                 *)
(***************************************************************************)
\* line 217, connect_to_database (lines 23-33): the connection, or None
\* after printing the error
MainConnect ==
  /\ pc = "connect"
  /\ \/ /\ conn' = "open"
        /\ UNCHANGED printed
     \/ /\ conn' = "none"
        /\ printed' = "Error connecting to the database"
  /\ pc' = "fetch"
  /\ UNCHANGED << caller, source0, previous_fetch, txn, committed, working,
                  primary_key_values,
                  sampled_primary_keys, table_names, backup_table_name, version,
                  i, outcome, calls, op, orig, created, expected, committed0, dberr,
                  commits, discarded, trip, ran >>

\* the process ends with a traceback: nothing after the raising line runs
Crash(step) ==
  /\ pc' = "crashed"
  /\ ran' = Append(ran, step)
  /\ UNCHANGED << caller, source0, previous_fetch, conn, txn, committed,
                  working, primary_key_values,
                  sampled_primary_keys, table_names, backup_table_name, version,
                  i, printed, outcome, calls, op, orig, created, expected,
                  committed0, dberr, commits, discarded, trip >>

\* line 226
MainFetch ==
  /\ pc = "fetch"
  /\ conn = "open"
  /\ GetPrimaryKeyValues("sample")
  /\ ran' = Append(ran, "fetch")
  /\ UNCHANGED trip

\* line 226 with connection = None: connection.cursor() raises
\* AttributeError, which is no psycopg2.Error
MainFetchNoConnection ==
  /\ pc = "fetch"
  /\ conn = "none"
  /\ Crash("fetch")

\* the rows get_primary_key_values returned, counted
Returned == SumOver({v \in KeyValues : primary_key_values.val[v] > 0},
                    primary_key_values.val)

\* line 229: random.sample raises TypeError on None and ValueError when the
\* population is smaller than the sample
MainSampleRaises ==
  /\ pc = "sample"
  /\ \/ primary_key_values.none
     \/ /\ ~primary_key_values.none
        /\ Returned < sample_size
  /\ Crash("sample")

\* line 229: sorted(random.sample(primary_key_values, sample_size)); the
\* tables of Init hold every key once, so a sample is a set of keys
MainSample ==
  /\ pc = "sample"
  /\ ~primary_key_values.none
  /\ Returned >= sample_size
  /\ \E S \in SUBSET {v \in KeyValues : primary_key_values.val[v] > 0} :
       /\ Cardinality(S) = sample_size
       /\ sampled_primary_keys' = SortedSeq(S)
  /\ pc' = "backup"
  /\ ran' = Append(ran, "sample")
  /\ UNCHANGED << caller, source0, previous_fetch, conn, txn, committed,
                  working, primary_key_values,
                  table_names, backup_table_name, version, i, printed, outcome,
                  calls, op, orig, created, expected, committed0, dberr, commits,
                  discarded, trip >>

\* line 232
MainBackup ==
  /\ pc = "backup"
  /\ CallBackupRecords
  /\ ran' = Append(ran, "backup")
  /\ trip' = 1
  /\ UNCHANGED orig

\* line 233
MainRemove ==
  /\ pc = "remove"
  /\ CallRemoveRecords
  /\ ran' = Append(ran, "delete")
  /\ trip' = IF trip = 1 /\ ~dberr THEN 2 ELSE 0

\* line 234
MainRestore ==
  /\ pc = "restore"
  /\ CallRestoreRecords
  /\ ran' = Append(ran, "restore")
  /\ trip' = IF trip = 2 /\ ~dberr THEN 3 ELSE 0

\* line 236
MainClose ==
  /\ pc = "close"
  /\ conn' = "closed"
  /\ pc' = "exit"
  /\ UNCHANGED << caller, source0, previous_fetch, txn, committed, working,
                  primary_key_values,
                  sampled_primary_keys, table_names, backup_table_name, version,
                  i, printed, outcome, calls, op, orig, created, expected,
                  committed0, dberr, commits, discarded, trip, ran >>

Next ==
  \/ MainConnect
  \/ MainFetch
  \/ MainFetchNoConnection
  \/ MainSampleRaises
  \/ MainSample
  \/ MainBackup
  \/ MainRemove
  \/ MainRestore
  \/ MainClose
  \/ Operations

Spec == Init /\ [][Next]_vars

(***************************************************************************)
(* Any caller: the operations called in any order, MaxCalls times, with    *)
(* the same key set and the same requested backup name                     *)
(***************************************************************************)
OpsFetch ==
  /\ pc = "idle"
  /\ calls < MaxCalls
  /\ GetPrimaryKeyValues("idle")
  /\ trip' = 0
  /\ UNCHANGED ran

\* a backup starts a round trip: the source rows at this point are recorded
OpsBackup ==
  /\ pc = "idle"
  /\ calls < MaxCalls
  /\ CallBackupRecords
  /\ trip' = 1
  /\ orig' = IF table_name \in DOMAIN working THEN working[table_name].rows ELSE NoRows
  /\ UNCHANGED ran

OpsRemove ==
  /\ pc = "idle"
  /\ calls < MaxCalls
  /\ CallRemoveRecords
  /\ trip' = IF trip = 1 /\ ~dberr THEN 2 ELSE 0
  /\ UNCHANGED ran

OpsRestore ==
  /\ pc = "idle"
  /\ calls < MaxCalls
  /\ CallRestoreRecords
  /\ trip' = IF trip = 2 /\ ~dberr THEN 3 ELSE 0
  /\ UNCHANGED ran

NextOps ==
  \/ OpsFetch
  \/ OpsBackup
  \/ OpsRemove
  \/ OpsRestore
  \/ Operations

SpecOps == InitOps /\ [][NextOps]_vars


(***************************************************************************)
(* Properties                                                              *)
(***************************************************************************)
SourceRows == committed[table_name].rows

\* every key value is held by at most one row
UniqueKeys(rows) == \A v \in KeyValues : Size(Matching(rows, v)) <= 1

\* the table the last backup_records created, once its creation is committed
CommittedBackup == {nm \in created : nm \in DOMAIN committed}

\* C1: after backup_records, remove_records and restore_records, called in
\* this order with the same key set and the same requested backup name and
\* each ending without a database error, the source table of unique keys
\* holds exactly the rows it held before the backup.
C1_RoundTrip ==
  (pc = "idle" /\ trip = 3 /\ outcome = "returned" /\ ~dberr /\ UniqueKeys(orig))
    => working[table_name].rows = orig

\* C2: in the entry routine, from the return of remove_records to the commit
\* of restore_records, every row that the committed source table has lost is
\* held by the committed backup table that backup_records created.
C2_DeletedRowsAreInBackup ==
  (pc \in {"restore", "s_insert", "s_except"}) =>
    \A r \in Rows :
      orig[r] > SourceRows[r] =>
        \E nm \in CommittedBackup : committed[nm].rows[r] >= orig[r] - SourceRows[r]

\* C3: backup_records commits at most once and only after every INSERT has
\* succeeded, commits once when no statement fails, and when a statement of
\* the call fails with a database error the call ends with the transaction
\* rolled back and the committed database as it was before the call.
C3_BackupAllOrNothing ==
  (op = "backup_records") =>
    /\ commits <= 1
    /\ commits = 1 => (~dberr /\ i > Len(sampled_primary_keys))
    /\ (outcome # "running" /\ ~dberr) => commits = 1
    /\ (outcome # "running" /\ dberr) =>
         (txn = "idle" /\ working = committed /\ committed = committed0)

\* C4: when remove_records returns without a database error it has committed
\* once and the source table has lost exactly the rows whose key is in the
\* key set, every other table being unchanged; when a DELETE failed it has
\* not committed, the transaction is rolled back and the database is as it
\* was before the call.
C4_RemoveAllOrNothing ==
  (op = "remove_records" /\ outcome = "returned") =>
    /\ txn = "idle"
    /\ working = committed
    /\ DOMAIN committed = DOMAIN committed0
    /\ IF dberr
       THEN commits = 0 /\ committed = committed0
       ELSE /\ commits = 1
            /\ \A nm \in DOMAIN committed \ {table_name} : committed[nm] = committed0[nm]
            /\ \A r \in Rows :
                 SourceRows[r] =
                   IF r.k \in KeySet THEN 0 ELSE committed0[table_name].rows[r]

\* C4 witness: remove_records failed after a DELETE had removed rows, and the
\* rollback undid the removal.
C4_Witness ==
  /\ op = "remove_records"
  /\ outcome = "returned"
  /\ dberr
  /\ discarded
  /\ i > 1

\* X, X_v1, X_v2, ...: the requested name with version suffix n
Versioned(n) ==
  IF n = 0 THEN requested_backup_table_name
  ELSE WithSuffix(requested_backup_table_name, n)

\* C5: when the tables X, X_v1, ..., X_v(n-1) exist and X_vn does not,
\* backup_records asked for X creates X_vn.
C5_BackupNaming ==
  (op = "backup_records" /\ created # {}) =>
    \A n \in 1..3 :
      ( /\ \A j \in 0..(n - 1) : Versioned(j) \in table_names.val
        /\ Versioned(n) \notin table_names.val )
      => created = {Versioned(n)}

\* C6: in the entry routine, the table restore_records reads from is the
\* table that backup_records created and committed in this run.
C6_RestoreReadsCreatedBackup ==
  (pc \in {"s_insert", "s_except"} /\ CommittedBackup # {})
    => backup_table_name \in CommittedBackup

\* C7: once backup_records has succeeded, the table it created holds exactly
\* the source rows whose key is in the key set, as many times as the source
\* held them, and it stays in the database with these rows through the
\* remove_records and restore_records that follow.
C7_BackupTableKept ==
  /\ \A nm \in CommittedBackup :
       /\ committed[nm].rows = expected
       /\ nm \in DOMAIN working
       /\ working[nm].rows = expected
  /\ (op = "backup_records" /\ outcome = "returned" /\ ~dberr) => CommittedBackup # {}
  /\ trip \in {2, 3} => CommittedBackup # {}

\* C7 witness: backup, remove and restore have run without error and the
\* backup table holds copied rows.
C7_Witness ==
  /\ pc = "idle"
  /\ trip = 3
  /\ outcome = "returned"
  /\ ~dberr
  /\ expected # NoRows
  /\ \E nm \in CommittedBackup : committed[nm].rows = expected

\* C8: an operation in which a database statement failed prints a diagnostic
\* and returns normally: no exception leaves it.
C8_ErrorsCaughtLocally ==
  (dberr /\ outcome # "running") => (outcome = "returned" /\ printed # "none")

\* C9: the entry routine ends only after it has run fetch, sample, backup,
\* delete and restore in this order and has closed the connection.
C9_RunsThroughAndCloses ==
  (pc \in {"exit", "crashed"}) =>
    /\ conn = "closed"
    /\ ran = << "fetch", "sample", "backup", "delete", "restore" >>

\* C10: when get_primary_key_values returns the result of its query, every
\* key value occurs in it as many times as the table has rows with this
\* value, and it has as many values as the table has rows.
C10_FetchReturnsKeyColumn ==
  (op = "get_primary_key_values" /\ ~dberr) =>
    /\ ~primary_key_values.none
    /\ \A v \in KeyValues :
         primary_key_values.val[v] =
           working[table_name].rows[[k |-> v, d |-> 0]]
             + working[table_name].rows[[k |-> v, d |-> 1]]
    /\ Returned = Size(working[table_name].rows)

\* C10 witness: the query returned the keys of a table in which two rows
\* hold the same key.
C10_Witness ==
  /\ op = "get_primary_key_values"
  /\ ~dberr
  /\ \E v \in KeyValues : primary_key_values.val[v] = 2


\* C12: the table backup_records creates enforces every constraint of the
\* source table: when the source enforces uniqueness of the key, so does the
\* backup table.
C12_BackupEnforcesConstraints ==
  \A nm \in created :
    (nm \in DOMAIN working /\ table_name \in DOMAIN working /\ working[table_name].uniq)
      => working[nm].uniq

\* C13: from the CREATE TABLE of backup_records on, the name it uses is none
\* of the names get_table_names returned at the start of the call, and while
\* backup_records runs every table that existed at the call is as it was.
C13_CreateAvoidsListedTables ==
  (op = "backup_records" /\ pc \in {"b_create", "b_insert", "b_except"}) =>
    /\ ~table_names.none
    /\ backup_table_name \notin table_names.val
    /\ table_names.val = DOMAIN committed0
    /\ \A nm \in DOMAIN committed0 : nm \in DOMAIN working /\ working[nm] = committed0[nm]

\* C13 witness: the requested name was taken, backup_records renamed it
\* twice, created the table and copied a row into it.
C13_Witness ==
  /\ op = "backup_records"
  /\ pc = "b_insert"
  /\ i > 1
  /\ Len(backup_table_name.sfx) = 2
  /\ \E nm \in created : working[nm].rows # NoRows

\* C15: when the entry routine has run backup_records, remove_records and
\* restore_records on a source table that enforces uniqueness of the key,
\* whichever of them failed, the source table holds no row that the original
\* table did not hold and no original row more than once.
C15_SourceHoldsOnlyOriginalRows ==
  (pc \in {"close", "exit"} /\ committed[table_name].uniq) =>
    \A r \in Rows : SourceRows[r] <= orig[r] /\ SourceRows[r] <= 1

\* the names the while loop of backup_records compared with the list: the
\* version counter starts at 1 and is raised once for every name found in
\* the list, so it counts the checks the loop has made
ChecksMade == version

\* C16: the renaming loop of backup_records ends, and it has then checked at
\* most (number of tables in the list) + 1 candidate names.
C16_RenamingLoopBound ==
  (op = "backup_records" /\ pc \in {"b_create", "b_insert", "b_except"}) =>
    ChecksMade <= Cardinality(table_names.val) + 1

\* C16 witness: the loop has ended after three checks.
C16_Witness ==
  /\ op = "backup_records"
  /\ pc = "b_create"
  /\ ChecksMade = 3
  /\ Len(backup_table_name.sfx) = 2


\* C11: get_primary_key_values changes no table, and when it is called
\* twice in a row and both queries succeed, the second call returns what the
\* first returned.
C11_FetchIsPureRead ==
  (op = "get_primary_key_values") =>
    /\ committed = committed0
    /\ working = committed0
    /\ (~previous_fetch.none /\ ~primary_key_values.none)
         => primary_key_values = previous_fetch

\* C11 witness: two calls in a row have each returned the keys of a table
\* that holds rows.
C11_Witness ==
  /\ op = "get_primary_key_values"
  /\ ~previous_fetch.none
  /\ ~primary_key_values.none
  /\ Returned > 0

\* C14: whatever backup_records, remove_records and restore_records have
\* done with the key set, committed or rolled back, every row whose key is
\* not in the key set is in the source table as often as at the start, in
\* the session's view and as committed, and is not in the table that
\* backup_records created.
C14_OtherRowsUntouched ==
  \A r \in Rows :
    r.k \notin KeySet =>
      /\ working[table_name].rows[r] = source0[r]
      /\ SourceRows[r] = source0[r]
      /\ \A nm \in created :
           /\ nm \in DOMAIN working => working[nm].rows[r] = 0
           /\ nm \in DOMAIN committed => committed[nm].rows[r] = 0

\* C14 witness: remove_records has committed the removal of rows while the
\* source table holds a row whose key is not in the key set.
C14_Witness ==
  /\ op = "remove_records"
  /\ outcome = "returned"
  /\ ~dberr
  /\ \E r \in Rows : r.k \in KeySet /\ source0[r] > SourceRows[r]
  /\ \E r \in Rows : r.k \notin KeySet /\ source0[r] > 0

====
